---- MODULE Spec2Model ----
(***************************************************************************)
(* Identity core of the FastAPI starter templates: account store,          *)
(* registration, login, token issue/verification, profile update,          *)
(* password change and delete.                                             *)
(*                                                                         *)
(* The backend_fastapi_sqlalchemy_async template (AuthService and          *)
(* UserService over one "users" table whose email column carries a unique  *)
(* constraint) is modelled by one action per service method.  Each         *)
(* specification composes the actions of one concern:                      *)
(*   Spec         register, login, update and delete, one call at a time   *)
(*   SpecStore    the same store with register and update_user_profile     *)
(*                split at session.commit, so that requests interleave     *)
(*   SpecRace     a batch of concurrent register calls                     *)
(*   SpecProtected the operations behind get_current_user                  *)
(*   SpecAccount  every operation that writes an account                   *)
(*   SpecPassword change_password between logins                           *)
(*   SpecSession  tokens issued by login and verified as time passes       *)
(*   SpecSync     the fastapi_sqlalchemy template: create account, login   *)
(*                and its token resolver                                   *)
(*   SpecDelete   accounts created and deleted by external id              *)
(*   SpecLogout   sessions that end with a logout, as time passes          *)
(*   SpecBeanie   the backend_fastapi_beanieodm template: create, update   *)
(*   SpecHasher   get_password_hash and verify_password on their own       *)
(*   SpecBackend  the backend_fastapi_sqlalchemy template: register, login *)
(*                and update behind its exception handlers                 *)
(*   SpecRouter   the /users routes of the fastapi_sqlalchemy_async        *)
(*                template                                                 *)
(*   SpecService  UserService of the fastapi_sqlalchemy_async template     *)
(*   SpecOrphan   tokens used after their account was deleted or disabled  *)
(* Time is counted in minutes.                                             *)
(***************************************************************************)
EXTENDS Integers, Sequences, FiniteSets, TLC

\* ---------------------------------------------------------------- bounds
MaxUsers == 2      \* rows ever inserted into the users table
MaxReq == 2        \* requests that can be in flight at once
MaxClock == 32     \* last instant of the clock

\* ------------------------------------------------------------ input sets
Emails == {"a@x.com", "b@x.com"}
Passwords == {"Secret1!", "Other2@x"}
Names == {"Ann"}
Usernames == {"alice", "a@x.com"}
\* instants at which requests arrive: around issue and around expiry
Times == {0, 1} \cup (29..MaxClock)
Reqs == 1..MaxReq
None == "None"
Null == -1          \* a NULL timestamp
Unset == "Unset"

\* ----------------------------------------------------- program constants
ACCESS_TOKEN_EXPIRE_MINUTES == 30

VARIABLES
    users,      \* rows of the users table
    nextId,     \* next autoincrement primary key
    inflight,   \* per request slot: the handler's position and locals
    tokens,     \* the token the client holds, if any
    now,        \* clock
    call,       \* request served by the handler that completed last
    resp        \* response of that handler

vars == <<users, nextId, inflight, tokens, now, call, resp>>

\* ------------------------------------------------------------ identifiers
\* uuid.uuid4(): a value distinct from every other one drawn, and from ids
Uuid(n) == <<"uuid", n>>
NoPid == Uuid(0)

\* ------------------------------------------------------ CredentialHasher
\* schemes=["bcrypt"]: bcrypt keys on the first 72 bytes of the password,
\* and passlib hands longer ones over truncated (truncate_error is off)
bcrypt_secret(password) ==
    IF Len(password) > 72 THEN SubSeq(password, 1, 72) ELSE password

\* pwd_context.hash: bcrypt of the password under a fresh salt
get_password_hash(password, salt) ==
    [pw |-> bcrypt_secret(password), salt |-> salt]
NoHash == [pw |-> None, salt |-> 0]

\* stored strings that are not the output of any scheme of the context
MalformedHashes == {[pw |-> "", salt |-> 0], [pw |-> "not-a-hash", salt |-> 0]}

\* CryptContext.identify: whether the string has the format of a bcrypt
\* hash; pwd_context.verify raises UnknownHashError when it has not
identify(hashed_password) == hashed_password.salt > 0

\* pwd_context.verify: recompute with the salt embedded in the hash
verify_password(plain_password, hashed_password) ==
    get_password_hash(plain_password, hashed_password.salt) = hashed_password

\* ----------------------------------------------------------- TokenIssuer
\* a token that expires the instant it is issued
create_access_token_NoTtl(sub, pid, t) ==
    [sub |-> sub, pid |-> pid, exp |-> t, sig |-> "ok"]

\* create_access_token: the claims plus exp = utcnow + configured TTL
create_access_token(sub, pid, t) ==
    [sub |-> sub, pid |-> pid, exp |-> t + ACCESS_TOKEN_EXPIRE_MINUTES, sig |-> "ok"]

\* a string that is not a JWT
BadToken == [sub |-> None, pid |-> NoPid, exp |-> 0, sig |-> "malformed"]
NoToken == [sub |-> None, pid |-> NoPid, exp |-> 0, sig |-> "none"]

\* a token whose signature part was altered
Tampered(token) == [token EXCEPT !.sig = "bad"]

\* PyJWT's exception classes: exc is cls or derives from it
IsA(exc, cls) ==
    \/ exc = cls
    \/ exc = "InvalidSignatureError" /\ cls \in {"DecodeError", "InvalidTokenError"}
    \/ exc = "DecodeError" /\ cls = "InvalidTokenError"
    \/ exc = "ExpiredSignatureError" /\ cls = "InvalidTokenError"

\* jwt.decode(token, SECRET_KEY, algorithms=[ALGORITHM]): "ok" or the exception
\* raised.  The segments are parsed, then the signature is verified, then
\* exp is compared with the clock; PyJWT 1.x accepts a token at the instant
\* exp and PyJWT 2.x rejects it, and the templates pin no version.
jwt_decode(token, t) ==
    IF token.sig \notin {"ok", "bad"} THEN {"DecodeError"}
    ELSE IF token.sig = "bad" THEN {"InvalidSignatureError"}
    ELSE IF token.exp < t THEN {"ExpiredSignatureError"}
    ELSE IF token.exp = t THEN {"ok", "ExpiredSignatureError"}
    ELSE {"ok"}

\* verify_token of app/auth.py for one outcome of jwt.decode: the subject,
\* None on jwt.InvalidTokenError, and any other exception propagates
verify_token(token, outcome) ==
    IF outcome = "ok" THEN [raised |-> FALSE, sub |-> token.sub]
    ELSE IF IsA(outcome, "InvalidTokenError") THEN [raised |-> FALSE, sub |-> None]
    ELSE [raised |-> TRUE, sub |-> None]

\* core.security.verify_token of the async backend: the claims of a token
\* that parses, carries a valid signature and has not expired
core_verify_token(token, t) ==
    IF token.sig = "ok" /\ t <= token.exp /\ token.sub # None
    THEN [ok |-> TRUE, email |-> token.sub]
    ELSE [ok |-> FALSE, email |-> None]

\* ---------------------------------------------------------------- store
ByEmail(e) == {u \in users : u.email = e}
ByPublicId(pid) == {u \in users : u.public_id = pid}
ById(i) == {u \in users : u.id = i}

\* unique=True on users.email: the rows rows would violate the constraint
EmailUnique(rows) ==
    \A u1, u2 \in rows : u1.email = u2.email => u1 = u2

\* a table whose email column is not declared unique
CommitOk_NoConstraint(rows) == TRUE

\* session.commit(): the write is applied iff the table's constraints hold
CommitOk(rows) == EmailUnique(rows)

\* rows that all get the same public_id
NewUser_SamePublicId(e, h, t) ==
    [id |-> nextId, public_id |-> Uuid(1), email |-> e,
     hashed_password |-> h, full_name |-> None, is_active |-> TRUE,
     is_verified |-> FALSE, last_login |-> Null,
     created_at |-> t, updated_at |-> Null]

\* User(email=..., hashed_password=..., is_active=True) once inserted: the
\* next autoincrement id and a public_id drawn by uuid4
NewUser(e, h, t) ==
    [id |-> nextId, public_id |-> Uuid(nextId), email |-> e,
     hashed_password |-> h, full_name |-> None, is_active |-> TRUE,
     is_verified |-> FALSE, last_login |-> Null,
     created_at |-> t, updated_at |-> Null]

\* ------------------------------------------------------------- responses
\* status and detail, and of the body: the access token, the account's
\* public_id and email, expires_in
Resp(op, status, detail) ==
    [op |-> op, status |-> status, detail |-> detail,
     token |-> NoToken, pid |-> NoPid, email |-> None, expires_in |-> 0,
     body |-> {}, hash |-> NoHash,
     error_code |-> None, error_id |-> 0, internal |-> None, events |-> <<>>]

NoResp == Resp(None, 0, None)

\* an exception no handler maps: the framework answers 500
Unhandled(op) == Resp(op, 500, "Internal Server Error")

\* a plain function call that returned value, or raised exc
Returned(op, value) == [Resp(op, 0, "return") EXCEPT !.email = value]
Raised(op, exc) == Resp(op, 0, exc)

\* a route with no response_model: FastAPI serialises every attribute of
\* the row it is handed
UserResponse_Raw(u) == DOMAIN u

\* response_model=UserResponse (schemas/auth.py): the attributes of the row
\* that the schema declares are the ones serialised into the body
UserResponse(u) ==
    DOMAIN u \cap {"public_id", "email", "full_name", "is_active", "is_verified",
                   "last_login", "created_at", "updated_at"}

\* response_model=UserRead (schemas/user.py)
UserRead(u) ==
    DOMAIN u \cap {"email", "public_id", "is_active", "created_at", "updated_at"}

\* a request: the operation, the identity it names (the email given, or the
\* subject of the token presented) and its other arguments
Call(op, email, password) ==
    [op |-> op, email |-> email, password |-> password,
     new_password |-> None, new_email |-> Unset, pid |-> NoPid,
     token |-> NoToken, user_id |-> 0, hash |-> NoHash, username |-> None]

NoCall == Call(None, None, None)

NoUpd == [email |-> Unset, full_name |-> Unset]

Idle == [pc |-> "idle", op |-> None, email |-> None, password |-> None,
         uid |-> 0, upd |-> NoUpd, status |-> 0]

Busy(r) == inflight[r].pc = "commit"

\* the salt bcrypt draws at random: a value that is in no hash of the store
UsedSalts == {u.hashed_password.salt : u \in users}

FreshSalt == CHOOSE n \in 1..(Cardinality(UsedSalts) + 1) : n \notin UsedSalts

Init ==
    /\ users = {}
    /\ nextId = 1
    /\ inflight = [r \in Reqs |-> Idle]
    /\ tokens = {}
    /\ now = 0
    /\ call = NoCall
    /\ resp = NoResp

\* ------------------------------------------------- register (both services)
\* register without its existence check
EmailTaken_Never(e) == FALSE

\* select(User).where(User.email == email) ... scalar_one_or_none()
EmailTaken(e) == ByEmail(e) # {}

\* session.add(db_user); session.commit(): the INSERT under the constraints
Insert(rows, u) ==
    IF CommitOk(rows \cup {u})
    THEN [ok |-> TRUE, rows |-> rows \cup {u}]
    ELSE [ok |-> FALSE, rows |-> rows]

\* the response of register once the INSERT was tried
RegisterResult(op, w, u) ==
    IF w.ok THEN [Resp(op, 201, None) EXCEPT
                    !.pid = u.public_id, !.email = u.email,
                    !.body = IF op = "auth.register" THEN UserResponse(u)
                                                     ELSE UserRead(u)]
    ELSE Unhandled(op)

\* a whole register_user / create_user call with no other request in between
Register(op, status, detail, e, p) ==
    /\ call' = Call(op, e, None)
    /\ IF EmailTaken(e)
       THEN /\ resp' = Resp(op, status, detail)
            /\ UNCHANGED <<users, nextId>>
       ELSE /\ nextId <= MaxUsers
            /\ LET u == NewUser(e, get_password_hash(p, FreshSalt), now)
                   w == Insert(users, u)
               IN /\ users' = w.rows
                  /\ nextId' = IF w.ok THEN nextId + 1 ELSE nextId
                  /\ resp' = RegisterResult(op, w, u)
    /\ UNCHANGED <<inflight, tokens, now>>

\* AuthService.register_user
AuthRegister(e, p) == Register("auth.register", 409, "Email ja registrado", e, p)

\* UserService.create_user
UserCreate(e, p) == Register("user.register", 400, "Email already registered", e, p)

\* ------------------------------- register, split after its SELECT returns
\* the slot of a request that has answered
Finish(op, e, rs, keep) ==
    IF keep
    THEN [Idle EXCEPT !.pc = "done", !.op = op, !.email = e, !.status = rs.status]
    ELSE Idle

\* register up to the result of its SELECT: the existence check
RegisterCheck(r, op, status, detail, e, p, keep) ==
    /\ IF EmailTaken(e)
       THEN /\ resp' = Resp(op, status, detail)
            /\ call' = Call(op, e, None)
            /\ inflight' = [inflight EXCEPT ![r] =
                   Finish(op, e, Resp(op, status, detail), keep)]
       ELSE /\ inflight' = [inflight EXCEPT ![r] =
                   [Idle EXCEPT !.pc = "commit", !.op = op, !.email = e,
                                !.password = p]]
            /\ resp' = NoResp
            /\ call' = NoCall
    /\ UNCHANGED <<users, nextId, tokens, now>>

\* the rest of the request in slot r: get_password_hash, session.add,
\* session.commit() and session.refresh(db_user)
RegisterCommit(r, op, keep) ==
    /\ inflight[r].pc = "commit" /\ inflight[r].op = op
    /\ nextId <= MaxUsers
    /\ LET u == NewUser(inflight[r].email,
                        get_password_hash(inflight[r].password, FreshSalt), now)
           w == Insert(users, u)
       IN /\ users' = w.rows
          /\ nextId' = IF w.ok THEN nextId + 1 ELSE nextId
          /\ resp' = RegisterResult(op, w, u)
          /\ call' = Call(op, inflight[r].email, None)
          /\ inflight' = [inflight EXCEPT ![r] = Finish(op, u.email, RegisterResult(op, w, u), keep)]
    /\ UNCHANGED <<tokens, now>>

AuthRegisterCheck(r, e, p) ==
    /\ ~Busy(r)
    /\ RegisterCheck(r, "auth.register", 409, "Email ja registrado", e, p, FALSE)

AuthRegisterCommit(r) == RegisterCommit(r, "auth.register", FALSE)

\* ------------------------------------------------------------------ login
\* the client holds the token it was sent last
Keep(token) == {token}

\* a login that tells an unknown email from a wrong password
AuthLoginReject_Leaky(found, p) ==
    IF found = {}
    THEN Resp("auth.login", 404, "Usuario nao encontrado")
    ELSE IF \A u \in found : ~verify_password(p, u.hashed_password)
    THEN Resp("auth.login", 401, "Email ou senha invalidos")
    ELSE IF \E u \in found : ~u.is_active
    THEN Resp("auth.login", 400, "Conta de usuario desativada")
    ELSE NoResp

\* a login that does not look at is_active
AuthLoginReject_NoActiveCheck(found, p) ==
    IF found = {} \/ \A u \in found : ~verify_password(p, u.hashed_password)
    THEN Resp("auth.login", 401, "Email ou senha invalidos")
    ELSE NoResp

\* a login that looks at is_active before it verifies the password
AuthLoginReject_ActiveFirst(found, p) ==
    IF \E u \in found : ~identify(u.hashed_password)
    THEN Unhandled("auth.login")
    ELSE IF found = {}
    THEN Resp("auth.login", 401, "Email ou senha invalidos")
    ELSE IF \E u \in found : ~u.is_active
    THEN Resp("auth.login", 400, "Conta de usuario desativada")
    ELSE IF \A u \in found : ~verify_password(p, u.hashed_password)
    THEN Resp("auth.login", 401, "Email ou senha invalidos")
    ELSE NoResp

\* AuthService.login_user, the two rejections: 401 when the email is unknown
\* or the password does not verify, then 400 when the account is disabled;
\* an exception of verify_password is caught nowhere and leaves as a 500
AuthLoginReject(found, p) ==
    IF \E u \in found : ~identify(u.hashed_password)
    THEN Unhandled("auth.login")
    ELSE IF found = {} \/ \A u \in found : ~verify_password(p, u.hashed_password)
    THEN Resp("auth.login", 401, "Email ou senha invalidos")
    ELSE IF \E u \in found : ~u.is_active
    THEN Resp("auth.login", 400, "Conta de usuario desativada")
    ELSE NoResp

\* AuthService.login_user
AuthLogin(e, p) ==
    LET found == ByEmail(e)
        rej == AuthLoginReject(found, p)
    IN
    /\ call' = Call("auth.login", e, p)
    /\ IF rej # NoResp
       THEN /\ resp' = rej
            /\ UNCHANGED <<users, tokens>>
       ELSE LET user == CHOOSE u \in found : TRUE
                row == [user EXCEPT !.last_login = now, !.updated_at = now]
                token == create_access_token(row.email, row.public_id, now)
            IN /\ users' = (users \ {user}) \cup {row}
               /\ tokens' = Keep(token)
               /\ resp' = [Resp("auth.login", 200, None) EXCEPT
                             !.token = token, !.pid = row.public_id,
                             !.email = row.email,
                             !.expires_in = ACCESS_TOKEN_EXPIRE_MINUTES * 60,
                             !.body = UserResponse(row)]
    /\ UNCHANGED <<nextId, inflight, now>>

\* UserService.authenticate_user
authenticate_user(e, p) ==
    {u \in ByEmail(e) : verify_password(p, u.hashed_password)}

\* UserService.login_user, the two rejections
UserLoginReject(found) ==
    IF found = {}
    THEN Resp("user.login", 401, "Invalid credentials")
    ELSE IF \E u \in found : ~u.is_active
    THEN Resp("user.login", 400, "User account is disabled")
    ELSE NoResp

\* UserService.login_user
UserLogin(e, p) ==
    LET found == authenticate_user(e, p)
        rej == UserLoginReject(found)
    IN
    /\ call' = Call("user.login", e, p)
    /\ IF rej # NoResp
       THEN /\ resp' = rej
            /\ UNCHANGED tokens
       ELSE LET user == CHOOSE u \in found : TRUE
                token == create_access_token(user.email, NoPid, now)
            IN /\ tokens' = Keep(token)
               /\ resp' = [Resp("user.login", 200, None) EXCEPT !.token = token]
    /\ UNCHANGED <<users, nextId, inflight, now>>

\* ------------------------------------------------------- token resolver
\* a resolver that answers 404 when the account of the token is gone
current_user_NotFound404(rows, t, op, token) ==
    LET data == core_verify_token(token, t)
        found == {u \in rows : u.email = data.email}
    IN
    IF ~data.ok
    THEN [ok |-> FALSE, user |-> None, err |-> Resp(op, 401, "Token invalido")]
    ELSE IF found = {}
    THEN [ok |-> FALSE, user |-> None, err |-> Resp(op, 404, "Usuario nao encontrado")]
    ELSE [ok |-> TRUE, user |-> CHOOSE u \in found : TRUE, err |-> NoResp]

\* AuthService.get_current_user over the rows of the session at instant t:
\* the account, or the 401 it raises
current_user(rows, t, op, token) ==
    LET data == core_verify_token(token, t)
        found == {u \in rows : u.email = data.email}
    IN
    IF ~data.ok
    THEN [ok |-> FALSE, user |-> None, err |-> Resp(op, 401, "Token invalido")]
    ELSE IF found = {}
    THEN [ok |-> FALSE, user |-> None, err |-> Resp(op, 401, "Usuario nao encontrado")]
    ELSE [ok |-> TRUE, user |-> CHOOSE u \in found : TRUE, err |-> NoResp]

get_current_user(op, token) == current_user(users, now, op, token)

Presented == tokens \cup {BadToken}

\* AuthService.get_user_profile
GetUserProfile(t) ==
    LET cur == get_current_user("auth.me", t) IN
    /\ call' = [Call("auth.me", t.sub, None) EXCEPT !.token = t]
    /\ resp' = IF cur.ok
               THEN [Resp("auth.me", 200, None) EXCEPT
                       !.pid = cur.user.public_id, !.email = cur.user.email,
                       !.body = UserResponse(cur.user)]
               ELSE cur.err
    /\ UNCHANGED <<users, nextId, inflight, tokens, now>>

\* AuthService.refresh_token
RefreshToken(t) ==
    LET cur == get_current_user("auth.refresh", t) IN
    /\ call' = [Call("auth.refresh", t.sub, None) EXCEPT !.token = t]
    /\ IF cur.ok
       THEN LET token == create_access_token(cur.user.email, cur.user.public_id, now) IN
            /\ tokens' = Keep(token)
            /\ resp' = [Resp("auth.refresh", 200, None) EXCEPT
                          !.token = token, !.pid = cur.user.public_id,
                          !.expires_in = ACCESS_TOKEN_EXPIRE_MINUTES * 60]
       ELSE /\ resp' = cur.err
            /\ UNCHANGED tokens
    /\ UNCHANGED <<users, nextId, inflight, now>>

\* a logout that removes the account of the token
Logout_DropsAccount(t) ==
    LET cur == get_current_user("auth.logout", t) IN
    /\ call' = [Call("auth.logout", t.sub, None) EXCEPT !.token = t]
    /\ resp' = IF cur.ok
               THEN Resp("auth.logout", 200, "Logout realizado com sucesso")
               ELSE cur.err
    /\ users' = IF cur.ok THEN users \ {cur.user} ELSE users
    /\ UNCHANGED <<nextId, inflight, tokens, now>>

\* AuthService.logout_user
Logout(t) ==
    LET cur == get_current_user("auth.logout", t) IN
    /\ call' = [Call("auth.logout", t.sub, None) EXCEPT !.token = t]
    /\ resp' = IF cur.ok
               THEN Resp("auth.logout", 200, "Logout realizado com sucesso")
               ELSE cur.err
    /\ UNCHANGED <<users, nextId, inflight, tokens, now>>

\* ---------------------------------------------------------- profile update
AuthUpdates == [email : Emails \cup {Unset}, full_name : Names \cup {Unset}]

\* the UPDATE of the attributes that differ from the loaded row; loaded is
\* the email the row had when the session read it
ApplyProfile(rows, uid, loaded, upd, t) ==
    IF {u \in rows : u.id = uid} = {}
    THEN [ok |-> FALSE, rows |-> rows, pid |-> NoPid, email |-> None, body |-> {}]
    ELSE LET row == CHOOSE u \in rows : u.id = uid
             new == [row EXCEPT
                       !.email = IF upd.email \in {Unset, loaded} THEN @ ELSE upd.email,
                       !.full_name = IF upd.full_name = Unset THEN @ ELSE upd.full_name,
                       !.updated_at = t]
         IN IF CommitOk((rows \ {row}) \cup {new})
            THEN [ok |-> TRUE, rows |-> (rows \ {row}) \cup {new},
                  pid |-> new.public_id, email |-> new.email,
                  body |-> UserResponse(new)]
            ELSE [ok |-> FALSE, rows |-> rows, pid |-> NoPid, email |-> None,
                  body |-> {}]

UpdateResult(op, w) ==
    IF w.ok THEN [Resp(op, 200, None) EXCEPT
                    !.pid = w.pid, !.email = w.email, !.body = w.body]
    ELSE Unhandled(op)

\* "if update_data.email and update_data.email != user.email" and the lookup
EmailInUse(upd, user) ==
    upd.email # Unset /\ upd.email # user.email /\ ByEmail(upd.email) # {}

\* AuthService.update_user_profile with no other request in between
UpdateProfile(t, upd) ==
    LET cur == get_current_user("auth.update", t) IN
    /\ call' = [Call("auth.update", t.sub, None) EXCEPT
                  !.new_email = upd.email, !.token = t]
    /\ IF ~cur.ok
       THEN /\ resp' = cur.err
            /\ UNCHANGED users
       ELSE IF EmailInUse(upd, cur.user)
       THEN /\ resp' = Resp("auth.update", 409, "Email ja esta em uso")
            /\ UNCHANGED users
       ELSE LET w == ApplyProfile(users, cur.user.id, cur.user.email, upd, now) IN
            /\ users' = w.rows
            /\ resp' = UpdateResult("auth.update", w)
    /\ UNCHANGED <<nextId, inflight, tokens, now>>

\* AuthService.update_user_profile up to the commit
UpdateProfileCheck(r, t, upd) ==
    LET cur == get_current_user("auth.update", t) IN
    /\ ~Busy(r)
    /\ IF ~cur.ok
       THEN /\ resp' = cur.err
            /\ call' = [Call("auth.update", t.sub, None) EXCEPT
                          !.new_email = upd.email, !.token = t]
            /\ inflight' = [inflight EXCEPT ![r] = Idle]
       ELSE IF EmailInUse(upd, cur.user)
       THEN /\ resp' = Resp("auth.update", 409, "Email ja esta em uso")
            /\ call' = [Call("auth.update", t.sub, None) EXCEPT
                          !.new_email = upd.email, !.token = t]
            /\ inflight' = [inflight EXCEPT ![r] = Idle]
       ELSE /\ inflight' = [inflight EXCEPT ![r] =
                   [Idle EXCEPT !.pc = "commit", !.op = "auth.update",
                                !.email = cur.user.email, !.uid = cur.user.id,
                                !.upd = upd]]
            /\ resp' = NoResp
            /\ call' = NoCall
    /\ UNCHANGED <<users, nextId, tokens, now>>

\* session.commit() and session.refresh(user) of the request in slot r
UpdateProfileCommit(r) ==
    /\ inflight[r].pc = "commit" /\ inflight[r].op = "auth.update"
    /\ LET rq == inflight[r]
           w == ApplyProfile(users, rq.uid, rq.email, rq.upd, now)
       IN /\ users' = w.rows
          /\ resp' = UpdateResult("auth.update", w)
          /\ call' = [Call("auth.update", rq.email, None) EXCEPT
                        !.new_email = rq.upd.email]
    /\ inflight' = [inflight EXCEPT ![r] = Idle]
    /\ UNCHANGED <<nextId, tokens, now>>

\* is_active is "true", "false" or left unset
UserUpdates == [email : Emails \cup {Unset}, is_active : {"true", "false", Unset}]

PublicIds == {Uuid(i) : i \in 1..MaxUsers}

\* UserService.update_user
UserUpdate(pid, upd) ==
    /\ call' = [Call("user.update", None, None) EXCEPT
                  !.pid = pid, !.new_email = upd.email]
    /\ IF ByPublicId(pid) = {}
       THEN /\ resp' = Resp("user.update", 404, "User not found")
            /\ UNCHANGED users
       ELSE LET row == CHOOSE u \in ByPublicId(pid) : TRUE
                new == [row EXCEPT
                          !.email = IF upd.email = Unset THEN @ ELSE upd.email,
                          !.is_active = IF upd.is_active = Unset THEN @ ELSE upd.is_active = "true",
                          !.updated_at = now]
            IN IF CommitOk((users \ {row}) \cup {new})
               THEN /\ users' = (users \ {row}) \cup {new}
                    /\ resp' = [Resp("user.update", 200, None) EXCEPT
                                  !.pid = pid, !.email = new.email,
                                  !.body = UserRead(new)]
               ELSE /\ resp' = Unhandled("user.update")
                    /\ UNCHANGED users
    /\ UNCHANGED <<nextId, inflight, tokens, now>>

\* a delete that empties the table
delete_user_Everyone(rows, pid) ==
    IF {u \in rows : u.public_id = pid} = {}
    THEN [resp |-> Resp("user.delete", 404, "User not found"), rows |-> rows]
    ELSE [resp |-> Resp("user.delete", 200, "User deleted successfully"), rows |-> {}]

\* a delete that empties the table before it answers 404 for an absent account
delete_user_WritesOnMiss(rows, pid) ==
    IF {u \in rows : u.public_id = pid} = {}
    THEN [resp |-> Resp("user.delete", 404, "User not found"), rows |-> {}]
    ELSE [resp |-> Resp("user.delete", 200, "User deleted successfully"),
          rows |-> rows \ {u \in rows : u.public_id = pid}]

\* UserService.delete_user on the table rows: its answer and the table after
delete_user(rows, pid) ==
    IF {u \in rows : u.public_id = pid} = {}
    THEN [resp |-> Resp("user.delete", 404, "User not found"), rows |-> rows]
    ELSE [resp |-> Resp("user.delete", 200, "User deleted successfully"),
          rows |-> rows \ {u \in rows : u.public_id = pid}]

\* UserService.get_user_by_public_id on the table rows
get_user_by_public_id(rows, pid) == {u \in rows : u.public_id = pid}

\* AccountRepository.get_user_by_id on the table rows
get_user_by_id(rows, user_id) == {u \in rows : u.id = user_id}

\* AccountRepository.delete_user on the table rows: the boolean it returns
\* and the table after
repo_delete_user(rows, user_id) ==
    IF get_user_by_id(rows, user_id) = {}
    THEN [ok |-> FALSE, rows |-> rows]
    ELSE [ok |-> TRUE, rows |-> rows \ get_user_by_id(rows, user_id)]

\* DELETE /users/{public_id}: UserService.delete_user
UserDelete(pid) ==
    /\ call' = [Call("user.delete", None, None) EXCEPT !.pid = pid]
    /\ users' = delete_user(users, pid).rows
    /\ resp' = delete_user(users, pid).resp
    /\ UNCHANGED <<nextId, inflight, tokens, now>>

\* -------------------------------------------------------- password change
\* a change_password that accepts any current password
CurrentPasswordOk_Always(current_password, user) == TRUE

\* "if not verify_password(password_data.current_password, user.hashed_password)"
CurrentPasswordOk(current_password, user) ==
    verify_password(current_password, user.hashed_password)

\* a change_password that keeps the stored hash
NewCredential_Kept(user, new_password) == user.hashed_password

\* "user.hashed_password = get_password_hash(password_data.new_password)"
NewCredential(user, new_password) == get_password_hash(new_password, FreshSalt)

\* AuthService.change_password
ChangePassword(t, current_password, new_password) ==
    LET cur == get_current_user("auth.password", t) IN
    /\ call' = [Call("auth.password", t.sub, current_password) EXCEPT
                  !.new_password = new_password, !.token = t]
    /\ IF ~cur.ok
       THEN /\ resp' = cur.err
            /\ UNCHANGED users
       ELSE IF ~CurrentPasswordOk(current_password, cur.user)
       THEN /\ resp' = Resp("auth.password", 400, "Senha atual incorreta")
            /\ UNCHANGED users
       ELSE /\ users' = (users \ {cur.user}) \cup
                   {[cur.user EXCEPT
                       !.hashed_password = NewCredential(cur.user, new_password),
                       !.updated_at = now]}
            /\ resp' = [Resp("auth.password", 200, "Senha alterada com sucesso")
                          EXCEPT !.pid = cur.user.public_id]
    /\ UNCHANGED <<nextId, inflight, tokens, now>>

\* ------------------------------------------------------------------ clock
\* time passes between two requests
Tick ==
    /\ \E t \in Times : t > now /\ now' = t
    /\ call' = NoCall
    /\ resp' = NoResp
    /\ UNCHANGED <<users, nextId, inflight, tokens>>

\* what a client can present: the token it holds, that token with its
\* signature altered, and a string that is no token
Forged == {Tampered(t) : t \in tokens}
PresentedAny == tokens \cup Forged \cup {BadToken}

\* a call of verify_token(token) of app/auth.py
VerifyToken(t) ==
    /\ call' = [Call("verify_token", t.sub, None) EXCEPT !.token = t]
    /\ \E outcome \in jwt_decode(t, now) :
           LET r == verify_token(t, outcome) IN
           resp' = IF r.raised THEN Raised("verify_token", outcome)
                   ELSE Returned("verify_token", r.sub)
    /\ UNCHANGED <<users, nextId, inflight, tokens, now>>

\* register, login, update and delete; every handler runs to completion
\* before the next one starts
Next ==
    \/ \E e \in Emails, p \in Passwords : AuthRegister(e, p)
    \/ \E e \in Emails, p \in Passwords : UserCreate(e, p)
    \/ \E e \in Emails, p \in Passwords : AuthLogin(e, p)
    \/ \E e \in Emails, p \in Passwords : UserLogin(e, p)
    \/ \E pid \in PublicIds, upd \in UserUpdates : UserUpdate(pid, upd)
    \/ \E pid \in PublicIds : UserDelete(pid)

Spec == Init /\ [][Next]_vars

\* the operations behind get_current_user, one call at a time
NextProtected ==
    \/ \E e \in Emails, p \in Passwords : AuthRegister(e, p)
    \/ \E e \in Emails, p \in Passwords : AuthLogin(e, p)
    \/ \E t \in Presented : GetUserProfile(t)
    \/ \E t \in Presented : RefreshToken(t)
    \/ \E t \in Presented : Logout(t)
    \/ \E t \in Presented, upd \in AuthUpdates : UpdateProfile(t, upd)

SpecProtected == Init /\ [][NextProtected]_vars

\* the one password of the specifications in which passwords decide nothing
StorePasswords == {"Secret1!"}

\* change_password between logins; update_user only enables and disables
PasswordUserUpdates == {upd \in UserUpdates : upd.email = Unset}

NextPassword ==
    \/ \E e \in Emails, p \in Passwords : AuthRegister(e, p)
    \/ \E e \in Emails, p \in Passwords : AuthLogin(e, p)
    \/ \E pid \in PublicIds, upd \in PasswordUserUpdates : UserUpdate(pid, upd)
    \/ \E t \in Presented, c \in Passwords, n \in Passwords : ChangePassword(t, c, n)

SpecPassword == Init /\ [][NextPassword]_vars

\* every operation of the two services that writes an account, one call at
\* a time
NextAccount ==
    \/ \E e \in Emails, p \in StorePasswords : AuthRegister(e, p)
    \/ \E e \in Emails, p \in StorePasswords : AuthLogin(e, p)
    \/ \E t \in Presented, upd \in AuthUpdates : UpdateProfile(t, upd)
    \/ \E pid \in PublicIds, upd \in UserUpdates : UserUpdate(pid, upd)
    \/ \E pid \in PublicIds : UserDelete(pid)
    \/ \E t \in Presented, c \in StorePasswords, n \in StorePasswords : ChangePassword(t, c, n)

SpecAccount == Init /\ [][NextAccount]_vars

\* accounts created by either service and deleted by their external id
NextDelete ==
    \/ \E e \in Emails, p \in Passwords : AuthRegister(e, p)
    \/ \E e \in Emails, p \in Passwords : UserCreate(e, p)
    \/ \E pid \in PublicIds : UserDelete(pid)

SpecDelete == Init /\ [][NextDelete]_vars

\* tokens issued by login and verified while the clock advances
NextSession ==
    \/ \E e \in Emails, p \in StorePasswords : AuthRegister(e, p)
    \/ \E e \in Emails, p \in StorePasswords : AuthLogin(e, p)
    \/ \E t \in PresentedAny : VerifyToken(t)
    \/ Tick

SpecSession == Init /\ [][NextSession]_vars

\* sessions that end with a logout, while the clock runs
NextLogout ==
    \/ \E e \in Emails, p \in StorePasswords : AuthRegister(e, p)
    \/ \E e \in Emails, p \in StorePasswords : AuthLogin(e, p)
    \/ \E t \in Presented : GetUserProfile(t)
    \/ \E t \in Presented : Logout(t)
    \/ Tick

SpecLogout == Init /\ [][NextLogout]_vars

\* profile updates that leave the email alone
NameUpdates == {upd \in AuthUpdates : upd.email = Unset}

\* tokens that outlive the account they were issued to: accounts are
\* deleted, disabled and enabled between two uses of a token
NextOrphan ==
    \/ \E e \in Emails, p \in StorePasswords : AuthRegister(e, p)
    \/ \E e \in Emails, p \in StorePasswords : AuthLogin(e, p)
    \/ \E pid \in PublicIds : UserDelete(pid)
    \/ \E pid \in PublicIds, upd \in PasswordUserUpdates : UserUpdate(pid, upd)
    \/ \E t \in Presented : GetUserProfile(t)
    \/ \E t \in Presented : RefreshToken(t)
    \/ \E t \in Presented : Logout(t)
    \/ \E t \in Presented, upd \in NameUpdates : UpdateProfile(t, upd)
    \/ \E t \in Presented, c \in StorePasswords, n \in StorePasswords :
          ChangePassword(t, c, n)

SpecOrphan == Init /\ [][NextOrphan]_vars

\* of MaxReq concurrent requests one takes a step while the others are
\* suspended between their SELECT and their commit; the inputs are those
\* that decide the rows' emails
Suspended == 1..(MaxReq - 1)
StoreAuthUpdates == {upd \in AuthUpdates : upd.email # Unset /\ upd.full_name = Unset}
StoreUserUpdates == {upd \in UserUpdates : upd.email # Unset /\ upd.is_active = Unset}

NextStore ==
    \/ \E r \in Suspended, e \in Emails, p \in StorePasswords : AuthRegisterCheck(r, e, p)
    \/ \E r \in Suspended : AuthRegisterCommit(r)
    \/ \E e \in Emails, p \in StorePasswords : AuthRegister(e, p)
    \/ \E e \in Emails, p \in StorePasswords : AuthLogin(e, p)
    \/ \E r \in Suspended, t \in Presented, upd \in StoreAuthUpdates : UpdateProfileCheck(r, t, upd)
    \/ \E r \in Suspended : UpdateProfileCommit(r)
    \/ \E pid \in PublicIds, upd \in StoreUserUpdates : UserUpdate(pid, upd)
    \/ \E pid \in PublicIds : UserDelete(pid)

SpecStore == Init /\ [][NextStore]_vars

\* N requests, each one register_user call, run concurrently from an empty
\* store; a slot keeps the status its request was answered with
RaceRegisterCheck(r, e, p) ==
    /\ inflight[r].pc = "idle"
    /\ RegisterCheck(r, "auth.register", 409, "Email ja registrado", e, p, TRUE)

RaceRegisterCommit(r) == RegisterCommit(r, "auth.register", TRUE)

NextRace ==
    \/ \E r \in Reqs, e \in Emails, p \in Passwords : RaceRegisterCheck(r, e, p)
    \/ \E r \in Reqs : RaceRegisterCommit(r)

SpecRace == Init /\ [][NextRace]_vars

\* ------------------------------------ the fastapi_sqlalchemy template
\* a row of its users table: accounts carry a username next to the email
SyncUser(username, e, h) ==
    [id |-> nextId, username |-> username, email |-> e,
     hashed_password |-> h, is_active |-> TRUE]

ByUsername(username) == {u \in users : u.username = username}

\* AccountRepository.user_exists(username=..., email=...)
user_exists(username, e) == ByUsername(username) # {} \/ ByEmail(e) # {}

\* response_model=UserResponse of the accounts routes: the body that
\* test_create_account reads back carries username, email and id
AccountResponse(u) == DOMAIN u \cap {"id", "username", "email", "is_active"}

\* POST /accounts/: create_account over AccountRepository.create_user
CreateAccount(username, e, p) ==
    /\ call' = Call("create_account", e, None)
    /\ IF user_exists(username, e)
       THEN /\ resp' = Resp("create_account", 400, "Username or email already registered")
            /\ UNCHANGED <<users, nextId>>
       ELSE /\ nextId <= MaxUsers
            /\ LET u == SyncUser(username, e, get_password_hash(p, FreshSalt)) IN
               /\ users' = users \cup {u}
               /\ resp' = [Resp("create_account", 201, None) EXCEPT
                             !.email = u.email, !.body = AccountResponse(u)]
            /\ nextId' = nextId + 1
    /\ UNCHANGED <<inflight, tokens, now>>

\* GET /accounts/{user_id}: the account is selected by its integer key
GetAccount(user_id) ==
    LET found == get_user_by_id(users, user_id) IN
    /\ call' = [Call("get_account", None, None) EXCEPT !.user_id = user_id]
    /\ resp' = IF found = {}
               THEN Resp("get_account", 404, "User not found")
               ELSE LET user == CHOOSE u \in found : TRUE IN
                    [Resp("get_account", 200, None) EXCEPT
                       !.email = user.email, !.body = AccountResponse(user)]
    /\ UNCHANGED <<users, nextId, inflight, tokens, now>>

\* AccountRepository.authenticate_user: the row of that username, if the
\* password verifies against its hash
repo_authenticate_user(username, p) ==
    {u \in ByUsername(username) : verify_password(p, u.hashed_password)}

\* POST /auth/login
Login(username, p) ==
    LET found == repo_authenticate_user(username, p) IN
    /\ call' = Call("login", username, p)
    /\ IF found = {}
       THEN /\ resp' = Resp("login", 401, "Invalid username or password")
            /\ UNCHANGED tokens
       ELSE LET user == CHOOSE u \in found : TRUE IN
            IF ~user.is_active
            THEN /\ resp' = Resp("login", 400, "Inactive user")
                 /\ UNCHANGED tokens
            ELSE LET token == create_access_token(user.username, NoPid, now) IN
                 /\ tokens' = Keep(token)
                 /\ resp' = [Resp("login", 200, None) EXCEPT
                               !.token = token, !.email = user.email]
    /\ UNCHANGED <<users, nextId, inflight, now>>

CredentialsException(op) == Resp(op, 401, "Could not validate credentials")

\* a resolver that does not catch jwt.ExpiredSignatureError
security_get_current_user_NoExpired(op, token, outcome) ==
    IF outcome = "ok"
    THEN IF token.sub = None \/ ByEmail(token.sub) = {}
         THEN CredentialsException(op)
         ELSE [Resp(op, 200, None) EXCEPT !.email = token.sub]
    ELSE IF IsA(outcome, "DecodeError")
    THEN CredentialsException(op)
    ELSE Unhandled(op)

\* get_current_user of shared/security.py for one outcome of jwt.decode: the
\* account whose email is the token's subject, or the 401 it raises on a
\* missing subject, jwt.DecodeError, jwt.ExpiredSignatureError and on no
\* such account; any other exception propagates
security_get_current_user(op, token, outcome) ==
    IF outcome = "ok"
    THEN IF token.sub = None \/ ByEmail(token.sub) = {}
         THEN CredentialsException(op)
         ELSE [Resp(op, 200, None) EXCEPT !.email = token.sub]
    ELSE IF IsA(outcome, "DecodeError") \/ IsA(outcome, "ExpiredSignatureError")
    THEN CredentialsException(op)
    ELSE Unhandled(op)

\* a request to a route that depends on get_current_user
CurrentUser(t) ==
    /\ call' = [Call("get_current_user", t.sub, None) EXCEPT !.token = t]
    /\ \E outcome \in jwt_decode(t, now) :
           resp' = security_get_current_user("get_current_user", t, outcome)
    /\ UNCHANGED <<users, nextId, inflight, tokens, now>>

NextSync ==
    \/ \E username \in Usernames, e \in Emails, p \in StorePasswords :
           CreateAccount(username, e, p)
    \/ \E username \in Usernames, p \in StorePasswords : Login(username, p)
    \/ \E user_id \in 1..MaxUsers : GetAccount(user_id)
    \/ \E t \in PresentedAny : CurrentUser(t)
    \/ \E t \in PresentedAny : VerifyToken(t)
    \/ Tick

SpecSync == Init /\ [][NextSync]_vars

\* ------------------------------- the backend_fastapi_beanieodm template
\* a document of its users collection; the ObjectId is drawn from nextId
BeanieUser(username, e, h, t) ==
    [id |-> nextId, username |-> username, email |-> e, hashed_password |-> h,
     is_active |-> TRUE, created_at |-> t, updated_at |-> Null]

\* response_model=UserRead of the template
BeanieUserRead(u) ==
    DOMAIN u \cap {"id", "username", "email", "is_active", "created_at", "updated_at"}

\* UserService.create_user: the email, then the username, must be free
BeanieCreateUser(username, e, p) ==
    /\ call' = Call("beanie.register", e, None)
    /\ IF ByEmail(e) # {}
       THEN /\ resp' = Resp("beanie.register", 400, "Email already registered")
            /\ UNCHANGED <<users, nextId>>
       ELSE IF ByUsername(username) # {}
       THEN /\ resp' = Resp("beanie.register", 400, "Username already taken")
            /\ UNCHANGED <<users, nextId>>
       ELSE /\ nextId <= MaxUsers
            /\ LET u == BeanieUser(username, e, get_password_hash(p, FreshSalt), now) IN
               /\ users' = users \cup {u}
               /\ resp' = [Resp("beanie.register", 201, None) EXCEPT
                             !.email = u.email, !.body = BeanieUserRead(u)]
            /\ nextId' = nextId + 1
    /\ UNCHANGED <<inflight, tokens, now>>

\* requests that set nothing, the email, is_active, or both
BeanieUpdates == [email : {"a@x.com", Unset}, is_active : {"false", Unset}]

\* model_dump(exclude_unset=True): the fields the request sets
update_data(upd) == {f \in DOMAIN upd : upd[f] # Unset}

\* UserService.update_user: "if update_data:" stamps updated_at and applies
\* the $set; with nothing set the document is read back as it was
beanie_update_user(u, upd, t) ==
    IF update_data(upd) = {}
    THEN u
    ELSE [u EXCEPT !.email = IF upd.email = Unset THEN @ ELSE upd.email,
                   !.is_active = IF upd.is_active = Unset THEN @ ELSE upd.is_active = "true",
                   !.updated_at = t]

\* PUT /users/{user_id} of the template
BeanieUpdateUser(user_id, upd) ==
    LET found == get_user_by_id(users, user_id) IN
    /\ call' = [Call("beanie.update", None, None) EXCEPT
                  !.user_id = user_id, !.new_email = upd.email]
    /\ IF found = {}
       THEN /\ resp' = Resp("beanie.update", 404, "User not found")
            /\ UNCHANGED users
       ELSE LET user == CHOOSE u \in found : TRUE
                new == beanie_update_user(user, upd, now)
            IN /\ users' = (users \ {user}) \cup {new}
               /\ resp' = [Resp("beanie.update", 200, None) EXCEPT
                             !.email = new.email, !.body = BeanieUserRead(new)]
    /\ UNCHANGED <<nextId, inflight, tokens, now>>

NextBeanie ==
    \/ \E username \in Usernames, e \in Emails, p \in StorePasswords :
           BeanieCreateUser(username, e, p)
    \/ \E user_id \in 1..MaxUsers, upd \in BeanieUpdates :
           BeanieUpdateUser(user_id, upd)
    \/ Tick

SpecBeanie == Init /\ [][NextBeanie]_vars

\* ------------------------------ the backend_fastapi_sqlalchemy template
\* a row of its users table: username and email, both unique
BackendUser(username, e, h, t) ==
    [id |-> nextId, public_id |-> Uuid(nextId), username |-> username,
     email |-> e, hashed_password |-> h, is_active |-> TRUE,
     created_at |-> t, updated_at |-> Null]

\* response_model=UserRead of the template
BackendUserRead(u) ==
    DOMAIN u \cap {"username", "email", "public_id", "is_active",
                   "created_at", "updated_at"}

\* an AuthenticationError that hands its reason to the client
AuthenticationError_Revealing(detail) ==
    [status_code |-> 401, detail |-> detail, internal_message |-> detail,
     error_code |-> "AUTH_ERROR"]

\* AuthenticationError: the generic detail goes out, the reason is logged
AuthenticationError(detail) ==
    [status_code |-> 401, detail |-> "Authentication failed",
     internal_message |-> detail, error_code |-> "AUTH_ERROR"]

\* ValidationError raised with no field
ValidationError(detail) ==
    [status_code |-> 400, detail |-> "Validation error: " \o detail,
     internal_message |-> "Validation error: " \o detail,
     error_code |-> "VALIDATION_ERROR"]

NotFoundError(resource) ==
    [status_code |-> 404, detail |-> "Resource not found",
     internal_message |-> resource \o " not found", error_code |-> "NOT_FOUND"]

\* uuid4 of the handler, one per error response
ErrorIds == {1, 2}

\* http_exception_handler: status, detail and error_code of the exception
\* and a fresh error_id; internal_message went to the log in the
\* exception's constructor
http_exception_handler(op, exc, error_id) ==
    [Resp(op, exc.status_code, exc.detail) EXCEPT
       !.error_code = exc.error_code, !.error_id = error_id,
       !.internal = exc.internal_message]

\* internal_server_error_handler, installed for Exception: one security
\* event and the generic 500
internal_server_error_handler(op, error_id, events) ==
    [Resp(op, 500, "Internal server error") EXCEPT
       !.error_code = "INTERNAL_ERROR", !.error_id = error_id, !.events = events]

SENSITIVE_FIELDS ==
    {"password", "passwd", "pwd", "secret", "key", "token", "credential",
     "auth", "session", "cookie", "hashed_password"}

\* a security logger that writes the event name and drops the details
log_security_event_NoDetails(event, user_id, details) ==
    [event |-> event, user_id |-> user_id, details |-> {}]

\* log_security_event: the record written to the security logger; details
\* is a set of <<key, value>> pairs and loses its sensitive keys
log_security_event(event, user_id, details) ==
    [event |-> event, user_id |-> user_id,
     details |-> {kv \in details : kv[1] \notin SENSITIVE_FIELDS}]

\* the query of create_user: rows with that email or that username
existing_users(username, e) ==
    {u \in users : u.email = e \/ u.username = username}

\* UserService.create_user; .first() of a query with no ORDER BY hands back
\* whichever matching row the database returns first
BackendCreateUser(username, e, p) ==
    /\ call' = [Call("backend.register", e, None) EXCEPT !.username = username]
    /\ IF existing_users(username, e) # {}
       THEN /\ \E existing_user \in existing_users(username, e), error_id \in ErrorIds :
                  LET conflict == IF existing_user.email = e THEN "email" ELSE "username"
                      exc == IF existing_user.email = e
                             THEN ValidationError("Email already registered")
                             ELSE ValidationError("Username already taken")
                  IN resp' = [http_exception_handler("backend.register", exc, error_id)
                                EXCEPT !.events =
                                  <<log_security_event("duplicate_registration_attempt", NoPid,
                                        {<<"attempted_email", e>>,
                                         <<"attempted_username", username>>,
                                         <<"conflict_type", conflict>>})>>]
            /\ UNCHANGED <<users, nextId>>
       ELSE /\ nextId <= MaxUsers
            /\ LET u == BackendUser(username, e, get_password_hash(p, FreshSalt), now) IN
               /\ users' = users \cup {u}
               /\ resp' = [Resp("backend.register", 201, None) EXCEPT
                             !.pid = u.public_id, !.email = u.email,
                             !.body = BackendUserRead(u)]
            /\ nextId' = nextId + 1
    /\ UNCHANGED <<inflight, tokens, now>>

\* UserService.login_user over authenticate_user
BackendLogin(e, p) ==
    LET found == authenticate_user(e, p) IN
    /\ call' = Call("backend.login", e, p)
    /\ IF found = {}
       THEN /\ \E error_id \in ErrorIds :
                  resp' = [http_exception_handler("backend.login",
                               AuthenticationError("Invalid email or password"), error_id)
                             EXCEPT !.events =
                               <<log_security_event("failed_login_attempt", NoPid,
                                                    {<<"email", e>>})>>]
            /\ UNCHANGED tokens
       ELSE LET user == CHOOSE u \in found : TRUE IN
            IF ~user.is_active
            THEN /\ \E error_id \in ErrorIds :
                       resp' = [http_exception_handler("backend.login",
                                    AuthenticationError("Account is disabled"), error_id)
                                  EXCEPT !.events =
                                    <<log_security_event("disabled_account_access_attempt",
                                                         user.public_id, {<<"email", e>>})>>]
                 /\ UNCHANGED tokens
            ELSE LET token == create_access_token(user.email, NoPid, now) IN
                 /\ tokens' = Keep(token)
                 /\ resp' = [Resp("backend.login", 200, None) EXCEPT !.token = token]
    /\ UNCHANGED <<users, nextId, inflight, now>>

\* requests that set is_active, the email, or both; none sets the username
BackendUpdates == [email : {"a@x.com", Unset}, is_active : {"true", "false", Unset}]

\* UserService.update_user: setattr of the fields set, updated_at, commit;
\* a commit refused by a unique constraint raises IntegrityError, which
\* only the handler for Exception catches
BackendUpdateUser(pid, upd) ==
    /\ call' = [Call("backend.update", None, None) EXCEPT
                  !.pid = pid, !.new_email = upd.email]
    /\ IF ByPublicId(pid) = {}
       THEN /\ \E error_id \in ErrorIds :
                  resp' = http_exception_handler("backend.update",
                                                 NotFoundError("User"), error_id)
            /\ UNCHANGED users
       ELSE LET row == CHOOSE u \in ByPublicId(pid) : TRUE
                new == [row EXCEPT
                          !.email = IF upd.email = Unset THEN @ ELSE upd.email,
                          !.is_active = IF upd.is_active = Unset THEN @
                                        ELSE upd.is_active = "true",
                          !.updated_at = now]
            IN IF CommitOk((users \ {row}) \cup {new})
               THEN /\ users' = (users \ {row}) \cup {new}
                    /\ resp' = [Resp("backend.update", 200, None) EXCEPT
                                  !.pid = pid, !.email = new.email,
                                  !.body = BackendUserRead(new)]
               ELSE /\ \E error_id \in ErrorIds :
                          resp' = internal_server_error_handler("backend.update", error_id,
                                      <<log_security_event("unexpected_server_error", NoPid,
                                            {<<"exception_type", "IntegrityError">>})>>)
                    /\ UNCHANGED users
    /\ UNCHANGED <<nextId, inflight, tokens, now>>

NextBackend ==
    \/ \E username \in Usernames, e \in Emails, p \in StorePasswords :
           BackendCreateUser(username, e, p)
    \/ \E e \in Emails, p \in Passwords : BackendLogin(e, p)
    \/ \E pid \in PublicIds, upd \in BackendUpdates : BackendUpdateUser(pid, upd)

SpecBackend == Init /\ [][NextBackend]_vars

\* --------- the fastapi_sqlalchemy_async template, app/routers/users.py
\* the row that create_user builds: User(username, email, hashed_password)
\* under the integer key the routes select by
RouterUser(username, e, h) ==
    [id |-> nextId, username |-> username, email |-> e, hashed_password |-> h]

\* select(User).where((User.email == ...) | (User.username == ...))
router_matches(username, e) == {u \in users : u.email = e \/ u.username = username}

\* POST /users/: scalar_one_or_none() returns the one matching row, None
\* when there is none, and raises MultipleResultsFound, which no handler
\* maps, when the email and the username match two different rows
RouterCreateUser(username, e, p) ==
    LET matched == router_matches(username, e) IN
    /\ call' = [Call("router.create", e, None) EXCEPT !.username = username]
    /\ IF Cardinality(matched) > 1
       THEN /\ resp' = Unhandled("router.create")
            /\ UNCHANGED <<users, nextId>>
       ELSE IF matched # {}
       THEN /\ resp' = Resp("router.create", 400, "Email or username already registered")
            /\ UNCHANGED <<users, nextId>>
       ELSE /\ nextId <= MaxUsers
            /\ LET u == RouterUser(username, e, get_password_hash(p, FreshSalt)) IN
               /\ users' = users \cup {u}
               /\ resp' = [Resp("router.create", 201, None) EXCEPT !.email = u.email]
            /\ nextId' = nextId + 1
    /\ UNCHANGED <<inflight, tokens, now>>

\* the bodies of PUT /users/{user_id} sent here: a new password, or nothing
RouterUpdates == [password : {"Other2@x", Unset}]

\* PUT /users/{user_id}: the route declares user_id, the body and the
\* database session and nothing else, so the request carries no token
RouterUpdateUser(user_id, upd) ==
    LET found == get_user_by_id(users, user_id) IN
    /\ call' = [Call("router.update", None, None) EXCEPT
                  !.user_id = user_id, !.new_password = upd.password]
    /\ IF found = {}
       THEN /\ resp' = Resp("router.update", 404, "User not found")
            /\ UNCHANGED users
       ELSE LET user == CHOOSE u \in found : TRUE
                new == IF upd.password = Unset THEN user
                       ELSE [user EXCEPT !.hashed_password =
                                           get_password_hash(upd.password, FreshSalt)]
            IN /\ users' = (users \ {user}) \cup {new}
               /\ resp' = [Resp("router.update", 200, None) EXCEPT !.email = new.email]
    /\ UNCHANGED <<nextId, inflight, tokens, now>>

\* DELETE /users/{user_id}: likewise declared without any token dependency
RouterDeleteUser(user_id) ==
    LET found == get_user_by_id(users, user_id) IN
    /\ call' = [Call("router.delete", None, None) EXCEPT !.user_id = user_id]
    /\ IF found = {}
       THEN /\ resp' = Resp("router.delete", 404, "User not found")
            /\ UNCHANGED users
       ELSE /\ users' = users \ found
            /\ resp' = Resp("router.delete", 204, None)
    /\ UNCHANGED <<nextId, inflight, tokens, now>>

NextRouter ==
    \/ \E username \in Usernames, e \in Emails, p \in StorePasswords :
          RouterCreateUser(username, e, p)
    \/ \E user_id \in 1..MaxUsers, upd \in RouterUpdates : RouterUpdateUser(user_id, upd)
    \/ \E user_id \in 1..MaxUsers : RouterDeleteUser(user_id)

SpecRouter == Init /\ [][NextRouter]_vars

\* ------- the fastapi_sqlalchemy_async template, app/services/user_service.py
\* the row UserService.create_user builds, under its integer key
ServiceUser(username, e, h) ==
    [id |-> nextId, username |-> username, email |-> e, hashed_password |-> h]

\* select(User).where(or_(User.email == ..., User.username == ...))
service_matches(username, e) == {u \in users : u.email = e \/ u.username = username}

\* UserService.create_user: scalar_one_or_none() raises MultipleResultsFound,
\* which nothing catches, when the email and the username match two
\* different rows; one matching row decides which field is reported
ServiceCreateUser(username, e, p) ==
    LET matched == service_matches(username, e) IN
    /\ call' = [Call("service.register", e, None) EXCEPT !.username = username]
    /\ IF Cardinality(matched) > 1
       THEN /\ resp' = Unhandled("service.register")
            /\ UNCHANGED <<users, nextId>>
       ELSE IF matched # {}
       THEN /\ LET existing_user == CHOOSE u \in matched : TRUE IN
               resp' = IF existing_user.email = e
                       THEN Resp("service.register", 400, "Email already registered")
                       ELSE Resp("service.register", 400, "Username already taken")
            /\ UNCHANGED <<users, nextId>>
       ELSE /\ nextId <= MaxUsers
            /\ LET u == ServiceUser(username, e, get_password_hash(p, FreshSalt)) IN
               /\ users' = users \cup {u}
               /\ resp' = [Resp("service.register", 201, None) EXCEPT !.email = u.email]
            /\ nextId' = nextId + 1
    /\ UNCHANGED <<inflight, tokens, now>>

\* UserService.delete_user
ServiceDeleteUser(user_id) ==
    LET found == get_user_by_id(users, user_id) IN
    /\ call' = [Call("service.delete", None, None) EXCEPT !.user_id = user_id]
    /\ IF found = {}
       THEN /\ resp' = Resp("service.delete", 404, "User not found")
            /\ UNCHANGED users
       ELSE /\ users' = users \ found
            /\ resp' = Resp("service.delete", 200, "User deleted successfully")
    /\ UNCHANGED <<nextId, inflight, tokens, now>>

NextService ==
    \/ \E username \in Usernames, e \in Emails, p \in StorePasswords :
          ServiceCreateUser(username, e, p)
    \/ \E user_id \in 1..MaxUsers : ServiceDeleteUser(user_id)

SpecService == Init /\ [][NextService]_vars

\* ------------------------------------------------------ the hasher alone
\* passwords of 8 and of 73 characters; the long ones differ in the last
A8 == "aaaaaaaa"
Pad72 == A8 \o A8 \o A8 \o A8 \o A8 \o A8 \o A8 \o A8 \o A8
HasherPasswords == Passwords \cup {Pad72 \o "1", Pad72 \o "2"}
Salts == 1..(MaxUsers + 1)

\* a call of get_password_hash(p): the salt is 16 random bytes of bcrypt,
\* which differ from the salts drawn before
HashPassword(p) ==
    /\ \E salt \in Salts \ (UsedSalts \cup {resp.hash.salt}) :
           /\ call' = Call("get_password_hash", None, p)
           /\ resp' = [Returned("get_password_hash", None) EXCEPT
                         !.hash = get_password_hash(p, salt)]
    /\ UNCHANGED <<users, nextId, inflight, tokens, now>>

\* a call of verify_password(q, h)
VerifyPassword(q, h) ==
    /\ call' = [Call("verify_password", None, q) EXCEPT !.hash = h]
    /\ resp' = IF ~identify(h)
               THEN Raised("verify_password", "UnknownHashError")
               ELSE Returned("verify_password",
                             IF verify_password(q, h) THEN "true" ELSE "false")
    /\ UNCHANGED <<users, nextId, inflight, tokens, now>>

\* the hashes at hand: the one returned last, the stored ones and strings
\* that are no hash
HashInputs ==
    ({resp.hash} \ {NoHash}) \cup {u.hashed_password : u \in users}
        \cup MalformedHashes

\* the table is empty, or holds one account whose hashed_password column
\* was not written by get_password_hash
InitHasher ==
    /\ nextId = 2
    /\ users \in {{}} \cup
                 {{[NewUser("a@x.com", h, 0) EXCEPT !.id = 1, !.public_id = Uuid(1)]} :
                    h \in MalformedHashes}
    /\ inflight = [r \in Reqs |-> Idle]
    /\ tokens = {}
    /\ now = 0
    /\ call = NoCall
    /\ resp = NoResp

NextHasher ==
    \/ \E p \in HasherPasswords : HashPassword(p)
    \/ \E q \in HasherPasswords, h \in HashInputs : VerifyPassword(q, h)
    \/ \E e \in Emails, p \in StorePasswords : AuthLogin(e, p)

SpecHasher == InitHasher /\ [][NextHasher]_vars

\* ------------------------------------------------------------------ claims
RegisterOps == {"auth.register", "user.register"}
LoginOps == {"auth.login", "user.login"}

DuplicateIdentity(op) ==
    IF op = "auth.register"
    THEN Resp(op, 409, "Email ja registrado")
    ELSE Resp(op, 400, "Email already registered")

InvalidCredentials(op) ==
    IF op = "auth.login"
    THEN Resp(op, 401, "Email ou senha invalidos")
    ELSE Resp(op, 401, "Invalid credentials")

DisabledAccount(op) ==
    IF op = "auth.login"
    THEN Resp(op, 400, "Conta de usuario desativada")
    ELSE Resp(op, 400, "User account is disabled")

\* C1: in every reachable state of the store, whatever the interleaving of
\* register, profile update and delete, no two stored accounts have the
\* same email.
C1_EmailUniqueInStore ==
    \A u1, u2 \in users : u1 # u2 => u1.email # u2.email

\* two accounts are stored and the write of a request that passed its own
\* check was turned down at commit
C1_Witness ==
    /\ Cardinality(users) = 2
    /\ call.op \in {"auth.register", "auth.update", "user.update"}
    /\ resp.status = 500

\* C2: a register call for an email that is already stored fails with the
\* duplicate-identity outcome of its service and leaves the store as it was,
\* with exactly one account for that email; a register call for an email
\* that is not stored succeeds and stores exactly one account for it.
C2_DuplicateRegisterRejected ==
    [][\A op \in RegisterOps : call'.op = op =>
          IF ByEmail(call'.email) # {}
          THEN /\ resp' = DuplicateIdentity(op)
               /\ users' = users
               /\ Cardinality(ByEmail(call'.email)) = 1
          ELSE /\ resp'.status = 201
               /\ \E u \in users' : /\ u.email = call'.email
                                    /\ u.public_id = resp'.pid
                                    /\ users' = users \cup {u}
                                    /\ u \notin users]_vars

\* the second register of an email was answered 409 and one account holds it
C2_Witness ==
    /\ call.op = "auth.register"
    /\ resp = DuplicateIdentity("auth.register")
    /\ Cardinality(ByEmail(call.email)) = 1

\* C3: when all N requests of a batch of concurrent register calls name the
\* same email and all have been answered, exactly one was answered 201,
\* the others were answered with DuplicateIdentity, and the store holds
\* exactly one account for that email.
C3_ExactlyOneRegisterSucceeds ==
    \A e \in Emails :
        (\A r \in Reqs : inflight[r].pc = "done" /\ inflight[r].email = e) =>
            /\ Cardinality({r \in Reqs : inflight[r].status = 201}) = 1
            /\ \A r \in Reqs : inflight[r].status \in {201, 409}
            /\ Cardinality(ByEmail(e)) = 1

\* C4: a login with an email that has no account and a login with a stored
\* email and a password that does not verify are answered with one and the
\* same response: status 401 and the service's single detail message.
C4_LoginFailuresIdentical ==
    [][\A op \in LoginOps : call'.op = op =>
          LET found == ByEmail(call'.email) IN
          (found = {} \/ \A u \in found :
                             ~verify_password(call'.password, u.hashed_password))
              => resp' = InvalidCredentials(op)]_vars

\* a stored email was presented with a wrong password and answered 401
C4_Witness ==
    /\ call.op = "auth.login"
    /\ resp = InvalidCredentials("auth.login")
    /\ ByEmail(call.email) # {}

\* C5: a login that names an account whose is_active is false is never
\* answered with a token, whatever the password: it fails, the client's
\* tokens stay as they were, and the account record stays in the store.
C5_NoTokenForDisabled ==
    [][\A op \in LoginOps : call'.op = op =>
          ((\E u \in ByEmail(call'.email) : ~u.is_active) =>
              /\ resp'.status # 200
              /\ resp'.token = NoToken
              /\ tokens' = tokens
              /\ users' = users)]_vars

\* a disabled account was presented with its correct password and refused
C5_Witness ==
    /\ call.op = "auth.login"
    /\ resp.status = 400
    /\ \E u \in ByEmail(call.email) :
           ~u.is_active /\ verify_password(call.password, u.hashed_password)

\* C6: whenever a login has just succeeded, the token it returned carries
\* the account's email as its subject, and the template's token resolver,
\* presented with that token, yields that same account.
C6_LoginTokenRoundTrip ==
    (call.op = "login" /\ resp.status = 200) =>
        /\ resp.token.sub = resp.email
        /\ \A outcome \in jwt_decode(resp.token, now) :
               security_get_current_user("get_current_user", resp.token, outcome)
                   = [Resp("get_current_user", 200, None) EXCEPT !.email = resp.email]

\* the answers of verify_token
Verified(token) == Returned("verify_token", token.sub)
Rejected == Returned("verify_token", None)

Unparseable(token) == token.sig \notin {"ok", "bad"}
BadSignature(token) == token.sig = "bad"
Expired(token, t) == token.sig = "ok" /\ token.exp < t

\* C8: a token that cannot be parsed, a token whose signature was altered
\* and an expired token are each rejected by get_current_user with the one
\* 401 'Could not validate credentials' and by verify_token with None; no
\* such token makes either of them raise an error that is not handled.
C8_TokenRejectedUniformly ==
    [][\A op \in {"get_current_user", "verify_token"} :
          (/\ call'.op = op
           /\ \/ Unparseable(call'.token)
              \/ BadSignature(call'.token)
              \/ Expired(call'.token, now'))
            => resp' = IF op = "get_current_user"
                       THEN CredentialsException(op) ELSE Rejected]_vars

\* an expired token of a stored account was presented to get_current_user
\* and answered 401
C8_Witness ==
    /\ call.op = "get_current_user"
    /\ Expired(call.token, now)
    /\ ByUsername(call.token.sub) # {}
    /\ resp = CredentialsException("get_current_user")

\* the answer a login with email e and password p gets from the store rows:
\* NoResp when it succeeds, the rejection otherwise
LoginAnswer(rows, e, p) == AuthLoginReject({u \in rows : u.email = e}, p)

WrongCurrent == Resp("auth.password", 400, "Senha atual incorreta")
AccountDisabled == Resp("auth.login", 400, "Conta de usuario desativada")

\* C9 as stated: change_password with a current password that does not
\* verify against the stored hash is answered 400 'Senha atual incorreta'
\* and leaves the store unchanged, so that afterwards a login with the old
\* password succeeds and a login with the rejected new password fails.
C9_OldPasswordStillLogsIn ==
    [][\A u \in users :
          (/\ call'.op = "auth.password"
           /\ u.email = call'.email
           /\ ~verify_password(call'.password, u.hashed_password))
            => /\ resp' = WrongCurrent
               /\ users' = users
               /\ \A p \in Passwords :
                      verify_password(p, u.hashed_password)
                          => LoginAnswer(users', u.email, p) = NoResp
               /\ LoginAnswer(users', u.email, call'.new_password) # NoResp]_vars

\* C9: change_password with a current password that does not verify
\* against the stored hash is answered 400 'Senha atual incorreta' and
\* leaves every field of every account unchanged, so that afterwards every
\* login is answered as it would have been before the call: the password
\* that verified before still passes the credential check, and the rejected
\* new password is refused as invalid exactly when it is not the password
\* already stored.
C9_WrongCurrentChangesNothing ==
    [][\A u \in users :
          (/\ call'.op = "auth.password"
           /\ u.email = call'.email
           /\ ~verify_password(call'.password, u.hashed_password))
            => /\ resp' = WrongCurrent
               /\ users' = users
               /\ \A p \in Passwords :
                      /\ LoginAnswer(users', u.email, p) = LoginAnswer(users, u.email, p)
                      /\ verify_password(p, u.hashed_password)
                             => LoginAnswer(users', u.email, p) # InvalidCredentials("auth.login")
               /\ LoginAnswer(users', u.email, call'.new_password) = InvalidCredentials("auth.login")
                      <=> ~verify_password(call'.new_password, u.hashed_password)]_vars

\* a change_password was refused for its wrong current password while the
\* new password it offered is the one the account already has
C9_Witness ==
    /\ call.op = "auth.password"
    /\ resp = WrongCurrent
    /\ \E u \in ByEmail(call.email) :
           /\ ~verify_password(call.password, u.hashed_password)
           /\ verify_password(call.new_password, u.hashed_password)
           /\ LoginAnswer(users, u.email, call.new_password) = NoResp

C11_DeleteRemovesExactlyOne ==
    [][/\ call'.op = "user.delete" =>
             LET found == get_user_by_public_id(users, call'.pid) IN
             IF found = {}
             THEN resp' = Resp("user.delete", 404, "User not found") /\ users' = users
             ELSE /\ resp'.status = 200
                  /\ Cardinality(found) = 1
                  /\ users' = users \ found
                  /\ get_user_by_public_id(users', call'.pid) = {}
                  /\ delete_user(users', call'.pid).resp.status = 404
                  /\ delete_user(users', call'.pid).rows = users'
       /\ \A i \in 1..MaxUsers :
             LET found == get_user_by_id(users', i)
                 r == repo_delete_user(users', i)
             IN IF found = {}
                THEN ~r.ok /\ r.rows = users'
                ELSE /\ r.ok
                     /\ Cardinality(found) = 1
                     /\ r.rows = users' \ found
                     /\ get_user_by_id(r.rows, i) = {}
                     /\ ~repo_delete_user(r.rows, i).ok]_vars

\* one of two stored accounts was deleted and the other one is still stored
C11_Witness ==
    /\ call.op = "user.delete"
    /\ resp.status = 200
    /\ Cardinality(users) = 1
    /\ nextId = 3
    /\ get_user_by_public_id(users, call.pid) = {}

\* C12: the public_id of an account is assigned when its row is created,
\* differs from the public_id of every other account, and is the same in
\* every later state in which the account is stored: no register, login,
\* update or change_password call changes the public_id of any account.
C12_PublicIdStable ==
    [][/\ \A u \in users, v \in users' :
             v.id = u.id => v.public_id = u.public_id
       /\ \A v \in users' :
             (\A u \in users : u.id # v.id)
                 => /\ v.public_id # NoPid
                    /\ \A u \in users : u.public_id # v.public_id
       /\ \A v1, v2 \in users' :
             v1 # v2 => v1.public_id # v2.public_id /\ v1.id # v2.id]_vars

\* after a second account was created, an account changed its email and is
\* still found under the public_id its token was issued with
C12_Witness ==
    /\ call.op = "auth.update"
    /\ resp.status = 200
    /\ call.new_email \notin {Unset, call.email}
    /\ nextId > 2
    /\ \E u \in users, t \in tokens :
           /\ u.email = call.new_email
           /\ u.public_id = resp.pid
           /\ t.sub = call.email /\ t.pid = u.public_id


\* C13: no response of register, login, get profile, list or update carries
\* the credential hash: the body of every response, and the UserResponse and
\* UserRead projection of every stored account (what a listing serialises),
\* leave hashed_password out, although every row holds one.
C13_HashNeverSerialised ==
    /\ "hashed_password" \notin resp.body
    /\ \A u \in users :
           /\ "hashed_password" \in DOMAIN u
           /\ "hashed_password" \notin UserResponse(u) \cup UserRead(u)

C13_Witness ==
    /\ resp.op = "auth.me" /\ resp.status = 200
    /\ {"public_id", "email"} \subseteq resp.body
    /\ \E u \in users : u.public_id = resp.pid /\ u.hashed_password # NoHash


\* C14: the integer id of an account never crosses the interface: no
\* response body carries it and no request selects an account by it.
C14_InternalKeyPrivate ==
    /\ "id" \notin resp.body
    /\ call.user_id = 0


\* C15: a hash returned by get_password_hash(p) verifies against q exactly
\* when q = p, and two calls for the same p, one after the other, return
\* different hashes that both verify against p.
C15_VerifyIffSamePassword ==
    [][call'.op = "get_password_hash" =>
          /\ \A q \in HasherPasswords :
                 verify_password(q, resp'.hash) <=> (q = call'.password)
          /\ (call.op = "get_password_hash" /\ call.password = call'.password) =>
                 /\ resp'.hash # resp.hash
                 /\ verify_password(call'.password, resp.hash)
                 /\ verify_password(call'.password, resp'.hash)]_vars

\* C16: verify_password answers false, and raises nothing, on a stored hash
\* that is malformed, and a login to an account with such a hash is answered
\* like one with a wrong password.
C16_MalformedHashIsWrongPassword ==
    [][/\ (call'.op = "verify_password" /\ call'.hash \in MalformedHashes) =>
              resp' = Returned("verify_password", "false")
       /\ (/\ call'.op = "auth.login"
           /\ \E u \in ByEmail(call'.email) : u.hashed_password \in MalformedHashes) =>
              resp' = Resp("auth.login", 401, "Email ou senha invalidos")]_vars


\* the operations that resolve the caller from the token
ProtectedOps ==
    {"auth.me", "auth.refresh", "auth.logout", "auth.update", "auth.password"}

C18_EmailConflictOnUpdate ==
    [][\A op \in {"auth.update", "user.update"} :
          LET target == IF op = "auth.update" THEN ByEmail(call'.email)
                                              ELSE ByPublicId(call'.pid)
              others == ByEmail(call'.new_email) \ target
          IN (call'.op = op /\ target # {} /\ resp'.status # 401) =>
                 IF call'.new_email # Unset /\ others # {}
                 THEN resp'.status \in {400, 409} /\ users' = users
                 ELSE resp'.status = 200]_vars


\* C19: every successful mutating operation on an account (a profile update,
\* also one that sets no field, and a password change) leaves the account
\* with updated_at equal to the time of the operation, and every stored
\* account with a non-null updated_at has updated_at >= created_at.
C19_UpdatedAtOnEveryMutation ==
    [][/\ (/\ call'.op \in {"auth.update", "auth.change_password"}
           /\ resp'.status = 200) =>
              \A u \in users' : u.email = resp'.email => u.updated_at = now'
       /\ (call'.op = "user.update" /\ resp'.status = 200) =>
              \A u \in users' : u.public_id = call'.pid => u.updated_at = now'
       /\ (call'.op = "beanie.update" /\ resp'.status = 200) =>
              \A u \in users' : u.id = call'.user_id => u.updated_at = now'
       /\ \A u \in users' : u.updated_at # Null => u.updated_at >= u.created_at]_vars


\* C20: when the commit of a register or of an email change is refused by
\* the uniqueness constraint on email (another request took the email after
\* this one's check), the caller is answered with DuplicateIdentity (409
\* with the service's message) and not with an unmapped error, and no row
\* changes.
C20_StorageConflictIsDuplicateIdentity ==
    [][\A r \in Suspended :
          LET rq == inflight[r]
              taken == IF rq.op = "auth.register"
                       THEN ByEmail(rq.email) # {}
                       ELSE /\ ById(rq.uid) # {}
                            /\ rq.upd.email \notin {Unset, rq.email}
                            /\ \E u \in ByEmail(rq.upd.email) : u.id # rq.uid
          IN (rq.pc = "commit" /\ inflight'[r].pc # "commit" /\ taken) =>
                 /\ users' = users
                 /\ resp'.status = 409
                 /\ resp'.detail \in {"Email ja registrado", "Email ja esta em uso"}]_vars


\* what the client receives of a response: everything but the log entries
\* and the error_id drawn for it
ClientView(r) == [r EXCEPT !.internal = None, !.events = <<>>, !.error_id = 0]

\* C21: in the sync SQLAlchemy backend every failed login, whether the
\* credentials were wrong or the account is disabled, reaches the client as
\* the same response (401, "Authentication failed", AUTH_ERROR) up to its
\* error_id; the reason is only in the internal log, where it tells the two
\* failures apart.
C21_LoginFailuresCollapsed ==
    [][(call'.op = "backend.login" /\ resp'.status # 200) =>
          LET disabled == \E u \in ByEmail(call'.email) :
                              /\ verify_password(call'.password, u.hashed_password)
                              /\ ~u.is_active
          IN /\ ClientView(resp') =
                    [Resp("backend.login", 401, "Authentication failed")
                       EXCEPT !.error_code = "AUTH_ERROR"]
             /\ resp'.error_id \in ErrorIds
             /\ resp'.internal = IF disabled THEN "Account is disabled"
                                             ELSE "Invalid email or password"]_vars

C21_Witness ==
    /\ call.op = "backend.login" /\ resp.status = 401
    /\ resp.detail = "Authentication failed"
    /\ resp.internal = "Account is disabled"
    /\ \E u \in ByEmail(call.email) : ~u.is_active


\* C22: a protected operation called with no token, or with a token that
\* does not verify, is answered 401 and leaves the account store as it was.
C22_NoTokenRejected ==
    [][(/\ call'.op \in ProtectedOps \cup {"router.update", "router.delete"}
        /\ ~core_verify_token(call'.token, now').ok)
       => (resp'.status = 401 /\ users' = users)]_vars


\* C23: last_login is null until the account's first successful login, every
\* successful login sets it to the time of that login, and a failed login
\* (unknown email, wrong password, disabled account) changes no field of any
\* account.
C23_LastLoginTracksLogins ==
    [][LET success == call'.op \in LoginOps /\ resp'.status = 200 IN
       /\ success => \A u \in users' : u.email = call'.email => u.last_login = now'
       /\ (call'.op \in LoginOps /\ ~success) => users' = users
       /\ \A u \in users' :
             ~(success /\ u.email = call'.email)
             => IF \E v \in users : v.id = u.id
                THEN \A v \in users : v.id = u.id => u.last_login = v.last_login
                ELSE u.last_login = Null]_vars


\* C24: login looks at is_active only after the account was found and the
\* password verified: a disabled account presented with a password that does
\* not verify is answered InvalidCredentials, and AccountDisabled is answered
\* exactly when the email is stored, the password verifies and is_active is
\* false.
C24_ActiveCheckedAfterPassword ==
    [][call'.op \in LoginOps =>
          LET found == ByEmail(call'.email)
              matched == \E u \in found :
                            verify_password(call'.password, u.hashed_password)
              disabled == \E u \in found : ~u.is_active
          IN /\ (disabled /\ ~matched) => resp' = InvalidCredentials(call'.op)
             /\ resp' = DisabledAccount(call'.op)
                  <=> (found # {} /\ matched /\ disabled)]_vars

\* a disabled account was presented with a wrong password and the answer was
\* the one of an unknown email
C24_Witness ==
    /\ call.op = "auth.login"
    /\ resp = InvalidCredentials("auth.login")
    /\ \E u \in ByEmail(call.email) :
          ~u.is_active /\ ~verify_password(call.password, u.hashed_password)


\* C25: a registration whose email is already stored is answered 400 with
\* the email named as the colliding field and stores nothing, also when its
\* username is the one of a different stored account.
C25_EmailCollisionReported ==
    [][(/\ call'.op \in {"service.register", "backend.register"}
        /\ ByEmail(call'.email) # {})
       => /\ resp'.status = 400
          /\ resp'.detail \in {"Email already registered",
                               "Validation error: Email already registered"}
          /\ users' = users]_vars


\* C26: in the backend that logs security events, every failed login (unknown
\* email, wrong password, disabled account) writes exactly one event, which
\* carries the attempted email and neither the attempted password nor a
\* password or hash field; a successful login and a successful registration
\* write none; a rejected duplicate registration writes exactly one.
C26_OneEventPerFailedLogin ==
    [][/\ (call'.op = "backend.login" /\ resp'.status # 200)
            => /\ Len(resp'.events) = 1
               /\ <<"email", call'.email>> \in resp'.events[1].details
               /\ \A kv \in resp'.events[1].details :
                     /\ kv[1] \notin {"password", "hashed_password"}
                     /\ kv[2] # call'.password
       /\ (call'.op \in {"backend.login", "backend.register"}
              /\ resp'.status \in {200, 201})
            => resp'.events = <<>>
       /\ (call'.op = "backend.register" /\ resp'.status = 400)
            => Len(resp'.events) = 1]_vars

\* a stored, enabled account was presented with a wrong password and the
\* refusal wrote its one event
C26_Witness ==
    /\ call.op = "backend.login"
    /\ resp.status = 401
    /\ Len(resp.events) = 1
    /\ resp.events[1].event = "failed_login_attempt"
    /\ \E u \in ByEmail(call.email) :
          u.is_active /\ ~verify_password(call.password, u.hashed_password)


\* C27: a token issued by login to one account never resolves to another:
\* get_current_user, presented with a token a client holds, yields the
\* account whose public_id the token was issued for, or rejects it.
C27_TokenResolvesToItsAccount ==
    \A t \in tokens :
        LET cur == get_current_user("auth.me", t) IN
        cur.ok => cur.user.public_id = t.pid


C29_DisabledAccountTokenRejected ==
    [][(/\ call'.op \in ProtectedOps
        /\ core_verify_token(call'.token, now').ok
        /\ \E u \in ByEmail(call'.token.sub) : ~u.is_active)
       => (resp'.status \in {400, 401, 403} /\ users' = users /\ tokens' = tokens)]_vars


====
